---- MODULE Spec2Model ----
(***************************************************************************)
(* GitHub Monitor: the server's aggregation routes (GET /api/prs,          *)
(* GET /api/workflows), the three per-PR sub-fetch functions, and the      *)
(* browser client's refresh cycle.                                         *)
(*                                                                         *)
(* Conventions.  A nullable JavaScript value is a sequence of length at    *)
(* most one: Null is <<>>, Some(x) is <<x>>.  A string whose prefix        *)
(* matters (a branch name) is the sequence of its tokens, "/" included.    *)
(* A timestamp is the text the upstream sends; DateParse gives its         *)
(* instant, in days.  An upstream answer is [ok |-> TRUE, body |-> b] or   *)
(* [ok |-> FALSE, body |-> Null] (githubRequest throws).                   *)
(***************************************************************************)
EXTENDS Integers, Sequences, FiniteSets, TLC

VARIABLES
    subCall,        \* the sub-fetch function last called, with its upstream answers
    subResult,      \* what that call returned
    now,            \* the server's clock: new Date(), in days
    wfPc,           \* GET /api/workflows: "idle", "loop" (in getUserWorkflows) or "done"
    wfStartedAt,    \* the clock when getUserWorkflows was called
    threeDaysAgo,   \* getUserWorkflows: the cutoff
    wfRepo,         \* getUserWorkflows: position of the next repository
    allRuns,        \* getUserWorkflows: the runs collected so far
    runAnswers,     \* what the upstream answered for each repository so far
    wfResponse,     \* the response of GET /api/workflows
    prPc,           \* GET /api/prs: "idle", "list" (about to list a repository),
                    \* "prs" (in the loop over its user PRs) or "done"
    prRepo,         \* GET /api/prs: position of the repository at hand
    userPRs,        \* GET /api/prs: the user's PRs of that repository still to process
    allPRs,         \* GET /api/prs: the PR records collected so far
    prAnswers,      \* what the upstream answered to each repository's PR list so far
    lastSub,        \* the PR processed last, with the upstream's five answers about it
    prResponse,     \* the response of GET /api/prs
    initPc,         \* the page's init(): "config" (awaiting loadConfig) or "loaded"
    repositories,   \* this.repositories
    btnDisabled,    \* refreshBtn.disabled
    btnText,        \* refreshBtn.textContent
    prsPanel,       \* what #prs-container shows
    wfPanel,        \* what #workflows-container shows
    calls,          \* the loadData calls made so far, in the order they started
    configured,     \* the repositories GET /api/config answers with
    card,           \* createPRCard: the card built last: its PR's repository, its colour
                    \* class, and this.repositories as the call found it
    requests        \* GET /api/prs: the upstream requests issued so far, in the order
                    \* they were issued, each pending or settled

subVars == <<subCall, subResult>>
wfVars == <<now, wfPc, wfStartedAt, threeDaysAgo, wfRepo, allRuns, runAnswers, wfResponse>>
prVars == <<prPc, prRepo, userPRs, allPRs, prAnswers, lastSub, prResponse>>
uiVars == <<initPc, repositories, btnDisabled, btnText, prsPanel, wfPanel, calls>>
cardVars == <<configured, card>>
reqVars == <<requests>>
vars == <<subVars, wfVars, prVars, uiVars, cardVars, reqVars>>

(***************************************************************************)
(* Bounds of the model.                                                    *)
(***************************************************************************)
MaxReviews == 2
MaxComments == 2
NumRepos == 2       \* repositories in REPOSITORIES
MaxRuns == 2        \* workflow runs the upstream lists during one call, all repositories together
MaxCalls == 2       \* loadData calls made while the page is open
MaxPRs == 2         \* open PRs the upstream lists during one request, all repositories together

(***************************************************************************)
(* JavaScript values.                                                      *)
(***************************************************************************)
Null == <<>>
Some(x) == <<x>>
OrElse(opt, dflt) == IF opt = Null THEN dflt ELSE opt[1]

Ok(b) == [ok |-> TRUE, body |-> b]
Failed == [ok |-> FALSE, body |-> Null]

\* how an async function settles: its promise resolves with a value, or rejects
Return(v) == [threw |-> FALSE, value |-> v]
Throw == [threw |-> TRUE, value |-> Null]

SeqsUpTo(S, n) == UNION {[1..k -> S] : k \in 0..n}

StartsWith(s, prefix) ==
    /\ Len(s) >= Len(prefix)
    /\ SubSeq(s, 1, Len(prefix)) = prefix

(***************************************************************************)
(* The state of each part before it has run.                               *)
(***************************************************************************)
SubIdle ==
    /\ subCall = [fn |-> "none", answers |-> <<>>]
    /\ subResult = Return(Null)

WfIdle ==
    /\ wfPc = "idle"
    /\ wfStartedAt = 0
    /\ threeDaysAgo = 0
    /\ wfRepo = 0
    /\ allRuns = <<>>
    /\ runAnswers = <<>>
    /\ wfResponse = Null

PrIdle ==
    /\ prPc = "idle"
    /\ prRepo = 0
    /\ userPRs = <<>>
    /\ allPRs = <<>>
    /\ prAnswers = <<>>
    /\ lastSub = Null
    /\ prResponse = Null

IdleLabel == "Refresh"
LoadingLabel == "Loading..."
InitialPanel == [view |-> "initial", cards |-> <<>>]

UiIdle ==
    /\ initPc = "config"
    /\ repositories = <<>>
    /\ btnDisabled = FALSE
    /\ btnText = IdleLabel
    /\ prsPanel = InitialPanel
    /\ wfPanel = InitialPanel
    /\ calls = <<>>

ReqIdle == requests = <<>>

(***************************************************************************)
(* Timestamps: the texts the upstream sends, and new Date(text), in days.  *)
(***************************************************************************)
StampText ==
    << "2024-03-01T00:00:00Z", "2024-03-02T00:00:00Z", "2024-03-03T00:00:00Z",
       "2024-03-04T00:00:00Z", "2024-03-05T00:00:00Z", "2024-03-06T00:00:00Z" >>

Stamp(day) == StampText[day]
Stamps == {StampText[i] : i \in 1..Len(StampText)}

\* new Date(text).getTime(), counted in days since 1970-01-01 (2024-03-01 is day 19783)
DateParse(text) == 19782 + (CHOOSE i \in 1..Len(StampText) : StampText[i] = text)

\* (a, b) => new Date(b.created_at) - new Date(a.created_at)
MutNewestFirst(a, b) == DateParse(a.created_at) - DateParse(b.created_at)
NewestFirst(a, b) == DateParse(b.created_at) - DateParse(a.created_at)

\* array.sort(NewestFirst): Array.prototype.sort is a stable sort (ECMAScript 2019),
\* here by insertion;
\* x goes behind every element that the comparator does not put after it
SortNewestFirst(s) ==
    LET Insert(x, t) ==
            LET k == Cardinality({i \in 1..Len(t) : NewestFirst(t[i], x) <= 0})
            IN  SubSeq(t, 1, k) \o <<x>> \o SubSeq(t, k + 1, Len(t))
        sorted[n \in 0..Len(s)] ==
            IF n = 0 THEN <<>> ELSE Insert(s[n], sorted[n - 1])
    IN  sorted[Len(s)]

(***************************************************************************)
(* What the upstream holds.  A review, a requested-reviewers answer, a     *)
(* comment and a workflow run carry the fields the code reads; the fields  *)
(* it only copies (title, html_url, name, updated_at, ...) are left out.   *)
(***************************************************************************)
Logins == {"alice", "bob"}
ReviewStates == {"APPROVED", "CHANGES_REQUESTED", "PENDING", "COMMENTED", "DISMISSED"}

Reviews ==
    [user : [login : Logins], state : ReviewStates,
     submitted_at : {Stamp(1)}, author_association : {"MEMBER"}]

RequestedUsers ==
    {Null} \cup {Some(u) : u \in {<<>>, <<[login |-> "alice"]>>, <<[login |-> "bob"]>>,
                                  <<[login |-> "alice"], [login |-> "bob"]>>}}
RequestedTeams ==
    {Null, Some(<<>>), Some(<<[slug |-> "core", name |-> "Core Team"]>>)}

ReviewAnswers == {Failed} \cup {Ok(r) : r \in SeqsUpTo(Reviews, MaxReviews)}
RequestedAnswers ==
    {Failed} \cup {Ok(r) : r \in [users : RequestedUsers, teams : RequestedTeams]}

Comments == [created_at : {Stamp(1), Stamp(2), Stamp(3)}]
CommentAnswers == {Failed} \cup {Ok(c) : c \in SeqsUpTo(Comments, MaxComments)}

(***************************************************************************)
(* getPRReviews: the two requests are awaited jointly; either one failing  *)
(* lands in the catch, which returns five empty collections.               *)
(***************************************************************************)
NoReviews ==
    [approving |-> <<>>, changesRequested |-> <<>>, pending |-> <<>>,
     requestedUsers |-> <<>>, requestedTeams |-> <<>>]

ReviewEntry(review) ==
    [user |-> review.user.login, submitted_at |-> review.submitted_at,
     author_association |-> review.author_association]

ReviewsInState(reviews, state) ==
    LET InState(review) == review.state = state
        kept == SelectSeq(reviews, InState)
    IN  [i \in 1..Len(kept) |-> ReviewEntry(kept[i])]

RequestedUserEntry(user) == [user |-> user.login, type |-> "user"]
RequestedTeamEntry(team) == [team |-> team.slug, name |-> team.name, type |-> "team"]

getPRReviews(reviewsAnswer, requestedAnswer) ==
    IF ~reviewsAnswer.ok \/ ~requestedAnswer.ok THEN Return(NoReviews)
    ELSE LET reviews == reviewsAnswer.body
             requestedReviewers == requestedAnswer.body
             requestedUsers == OrElse(requestedReviewers.users, <<>>)
             requestedTeams == OrElse(requestedReviewers.teams, <<>>)
         IN  Return(
              [approving |-> ReviewsInState(reviews, "APPROVED"),
               changesRequested |-> ReviewsInState(reviews, "CHANGES_REQUESTED"),
               pending |-> ReviewsInState(reviews, "PENDING"),
               requestedUsers |->
                   [i \in 1..Len(requestedUsers) |-> RequestedUserEntry(requestedUsers[i])],
               requestedTeams |->
                   [i \in 1..Len(requestedTeams) |-> RequestedTeamEntry(requestedTeams[i])]])

(***************************************************************************)
(* getLatestPRComment: issue comments, then review comments, sorted        *)
(* newest first; the first one's created_at, or null.                      *)
(***************************************************************************)
MutAllComments(issueComments, reviewComments) == issueComments
AllComments(issueComments, reviewComments) == issueComments \o reviewComments

getLatestPRComment(issueAnswer, reviewAnswer) ==
    IF ~issueAnswer.ok \/ ~reviewAnswer.ok THEN Return(Null)
    ELSE LET allComments == AllComments(issueAnswer.body, reviewAnswer.body)
         IN  IF Len(allComments) = 0 THEN Return(Null)
             ELSE Return(Some(SortNewestFirst(allComments)[1].created_at))

(***************************************************************************)
(* Configuration (process.env) and the server's clock.                     *)
(***************************************************************************)
GITHUB_USERNAME == "alice"
RepoNames ==
    << "acme/api", "acme/web", "acme/docs", "acme/ops", "acme/cli", "acme/sdk",
       "acme/infra", "acme/auth", "acme/mail", "acme/search", "acme/billing", "acme/site" >>
REPOSITORIES == SubSeq(RepoNames, 1, NumRepos)

\* the calendar of the model ends with its last timestamp
FirstNow == DateParse(Stamp(5))
LastNow == DateParse(Stamp(6))

CardIdle ==
    /\ configured = REPOSITORIES
    /\ card = Null

(***************************************************************************)
(* getUserWorkflows and GET /api/workflows.  One repository is fetched     *)
(* and filtered per step; the clock may advance between the steps.         *)
(***************************************************************************)
RefsPullPrefix == <<"refs", "/", "pull", "/">>
Branches ==
    {Null, Some(<<"main">>), Some(<<"refs", "/", "pull", "/", "42", "/", "merge">>)}
PullRequestLists == {Null, Some(<<>>), Some(<<[number |-> 42]>>)}

\* a run as listed by the upstream: its id is its place in the answer
RunShapes ==
    [created_at : {Stamp(1), Stamp(2), Stamp(3)}, head_branch : Branches,
     pull_requests : PullRequestLists]
RunList(shapes) ==
    [i \in 1..Len(shapes) |->
        [id |-> i, status |-> "completed", conclusion |-> "success",
         created_at |-> shapes[i].created_at, head_branch |-> shapes[i].head_branch,
         pull_requests |-> shapes[i].pull_requests]]
RunAnswers(n) ==
    {Failed} \cup {Ok([workflow_runs |-> RunList(shapes)]) : shapes \in SeqsUpTo(RunShapes, n)}

RunsListed(answers) ==
    LET count[k \in 0..Len(answers)] ==
            IF k = 0 THEN 0
            ELSE count[k - 1] +
                 (IF answers[k].ok THEN Len(answers[k].body.workflow_runs) ELSE 0)
    IN  count[Len(answers)]

ThreeDays == 3

\* runDate < threeDaysAgo
MutTooOld(runDate, cutoff) == runDate <= cutoff
TooOld(runDate, cutoff) == runDate < cutoff

\* run.head_branch && run.head_branch.startsWith('refs/pull/')
MutIsPullRequestBranch(head_branch) ==
    /\ head_branch # Null
    /\ head_branch[1] # <<>>
    /\ StartsWith(head_branch[1], <<"refs", "/", "pulls", "/">>)
IsPullRequestBranch(head_branch) ==
    /\ head_branch # Null
    /\ head_branch[1] # <<>>
    /\ StartsWith(head_branch[1], RefsPullPrefix)

StandaloneRun(run, repo) ==
    [id |-> run.id, repository |-> repo, status |-> run.status,
     conclusion |-> run.conclusion, created_at |-> run.created_at,
     head_branch |-> run.head_branch]

\* the body of "for (const run of workflows.workflow_runs)"
KeepRun(run, cutoff) ==
    /\ ~TooOld(DateParse(run.created_at), cutoff)
    /\ ~IsPullRequestBranch(run.head_branch)
    /\ Len(OrElse(run.pull_requests, <<>>)) = 0

RunsOfRepo(answer, repo, cutoff) ==
    IF ~answer.ok THEN <<>>
    ELSE LET Kept(run) == KeepRun(run, cutoff)
             kept == SelectSeq(answer.body.workflow_runs, Kept)
         IN  [i \in 1..Len(kept) |-> StandaloneRun(kept[i], repo)]

WfInit ==
    /\ now = FirstNow
    /\ WfIdle
    /\ PrIdle
    /\ UiIdle
    /\ SubIdle
    /\ CardIdle
    /\ ReqIdle

Tick ==
    /\ now < LastNow
    /\ now' = now + 1
    /\ UNCHANGED <<wfPc, wfStartedAt, threeDaysAgo, wfRepo, allRuns, runAnswers, wfResponse>>
    /\ UNCHANGED <<subVars, prVars, uiVars, cardVars, reqVars>>

\* app.get('/api/workflows') calls getUserWorkflows, which sets the cutoff first
GetUserWorkflowsStart ==
    /\ wfPc = "idle"
    /\ wfPc' = "loop"
    /\ wfStartedAt' = now
    /\ threeDaysAgo' = now - ThreeDays
    /\ wfRepo' = 1
    /\ allRuns' = <<>>
    /\ runAnswers' = <<>>
    /\ wfResponse' = Null
    /\ UNCHANGED now
    /\ UNCHANGED <<subVars, prVars, uiVars, cardVars, reqVars>>

\* one turn of "for (const repo of REPOSITORIES)": the request, then the runs or the catch
GetUserWorkflowsRepo ==
    /\ wfPc = "loop"
    /\ wfRepo <= Len(REPOSITORIES)
    /\ \E answer \in RunAnswers(MaxRuns - RunsListed(runAnswers)) :
        /\ runAnswers' = Append(runAnswers, answer)
        /\ allRuns' = allRuns \o RunsOfRepo(answer, REPOSITORIES[wfRepo], threeDaysAgo)
    /\ wfRepo' = wfRepo + 1
    /\ UNCHANGED <<now, wfPc, wfStartedAt, threeDaysAgo, wfResponse>>
    /\ UNCHANGED <<subVars, prVars, uiVars, cardVars, reqVars>>

\* return allRuns.sort(...); res.json(workflows)
GetUserWorkflowsRespond ==
    /\ wfPc = "loop"
    /\ wfRepo > Len(REPOSITORIES)
    /\ wfPc' = "done"
    /\ wfResponse' = Some([status |-> 200, body |-> SortNewestFirst(allRuns)])
    /\ UNCHANGED <<now, wfStartedAt, threeDaysAgo, wfRepo, allRuns, runAnswers>>
    /\ UNCHANGED <<subVars, prVars, uiVars, cardVars, reqVars>>

WfNext ==
    \/ Tick
    \/ GetUserWorkflowsStart
    \/ GetUserWorkflowsRepo
    \/ GetUserWorkflowsRespond

SpecWorkflows == WfInit /\ [][WfNext]_vars

(***************************************************************************)
(* getPRWorkflows: the runs of the PR's head commit, or [] from the catch. *)
(***************************************************************************)
WorkflowEntry(run) ==
    [id |-> run.id, status |-> run.status, conclusion |-> run.conclusion,
     created_at |-> run.created_at]

MutGetPRWorkflows(runsAnswer) ==
    IF ~runsAnswer.ok THEN Throw
    ELSE LET runs == runsAnswer.body.workflow_runs
         IN  Return([i \in 1..Len(runs) |-> WorkflowEntry(runs[i])])
getPRWorkflows(runsAnswer) ==
    IF ~runsAnswer.ok THEN Return(<<>>)
    ELSE LET runs == runsAnswer.body.workflow_runs
         IN  Return([i \in 1..Len(runs) |-> WorkflowEntry(runs[i])])

(***************************************************************************)
(* GET /api/prs.  One step lists a repository's open PRs and filters them, *)
(* one step processes one PR (its three sub-fetches, awaited jointly, and  *)
(* the push), one step sorts and responds.                                 *)
(***************************************************************************)
PRAuthors == {GITHUB_USERNAME, "bob"}
PRShapes == [login : PRAuthors, created_at : {Stamp(1), Stamp(2)}]

\* a PR as listed by the upstream: its number is its place in the answer
PRList(shapes) ==
    [i \in 1..Len(shapes) |->
        [number |-> i, user |-> [login |-> shapes[i].login],
         created_at |-> shapes[i].created_at]]
PRAnswers(n) == {Failed} \cup {Ok(PRList(shapes)) : shapes \in SeqsUpTo(PRShapes, n)}

PRsListed(answers) ==
    LET count[k \in 0..Len(answers)] ==
            IF k = 0 THEN 0
            ELSE count[k - 1] + (IF answers[k].ok THEN Len(answers[k].body) ELSE 0)
    IN  count[Len(answers)]

\* what the upstream may answer to the five requests about one PR
SubAnswers ==
    [reviews : {Failed, Ok(<<[user |-> [login |-> "bob"], state |-> "APPROVED",
                              submitted_at |-> Stamp(3), author_association |-> "MEMBER"]>>)},
     requested : {Failed, Ok([users |-> Some(<<[login |-> "carol"]>>), teams |-> Null])},
     issueComments : {Failed, Ok(<<[created_at |-> Stamp(3)]>>)},
     reviewComments : {Failed, Ok(<<[created_at |-> Stamp(4)]>>)},
     runs : {Failed, Ok([workflow_runs |->
                RunList(<<[created_at |-> Stamp(3), head_branch |-> Some(<<"main">>),
                           pull_requests |-> Null]>>)])}]

\* prs.filter(pr => pr.user.login === GITHUB_USERNAME)
MutIsUserPR(pr) == TRUE
IsUserPR(pr) == pr.user.login = GITHUB_USERNAME

PRRecord(pr, repo, reviews, latestComment, workflows) ==
    [number |-> pr.number, repository |-> repo, created_at |-> pr.created_at,
     author |-> pr.user.login, reviews |-> reviews, latest_comment |-> latestComment,
     workflows |-> workflows]

\* the catch of one repository logs; the for loop goes on with the next repository
MutAfterCatch(repo) == Len(REPOSITORIES) + 1
AfterCatch(repo) == repo + 1

PrInit ==
    /\ now = FirstNow
    /\ PrIdle
    /\ SubIdle
    /\ WfIdle
    /\ UiIdle
    /\ CardIdle
    /\ ReqIdle

GetPRsStart ==
    /\ prPc = "idle"
    /\ prPc' = "list"
    /\ prRepo' = 1
    /\ UNCHANGED <<userPRs, allPRs, prAnswers, lastSub, prResponse>>
    /\ UNCHANGED <<subVars, wfVars, uiVars, cardVars, reqVars>>

\* const prs = await githubRequest(...pulls?state=open); const userPRs = prs.filter(...)
GetPRsList ==
    /\ prPc = "list"
    /\ prRepo <= Len(REPOSITORIES)
    /\ \E answer \in PRAnswers(MaxPRs - PRsListed(prAnswers)) :
        /\ prAnswers' = Append(prAnswers, answer)
        /\ IF ~answer.ok
           THEN /\ userPRs' = <<>>
                /\ prRepo' = AfterCatch(prRepo)
                /\ prPc' = "list"
           ELSE LET mine == SelectSeq(answer.body, IsUserPR)
                IN  /\ userPRs' = mine
                    /\ prRepo' = IF mine = <<>> THEN prRepo + 1 ELSE prRepo
                    /\ prPc' = IF mine = <<>> THEN "list" ELSE "prs"
    /\ UNCHANGED <<allPRs, lastSub, prResponse>>
    /\ UNCHANGED <<subVars, wfVars, uiVars, cardVars, reqVars>>

\* one turn of "for (const pr of userPRs)": await Promise.all([...]); allPRs.push({...}).
\* Were a sub-fetch to reject, Promise.all would reject into the repository's catch.
GetPRsProcess ==
    /\ prPc = "prs"
    /\ \E answers \in SubAnswers :
        LET pr == Head(userPRs)
            repo == REPOSITORIES[prRepo]
            reviews == getPRReviews(answers.reviews, answers.requested)
            latestComment == getLatestPRComment(answers.issueComments, answers.reviewComments)
            workflows == getPRWorkflows(answers.runs)
        IN  /\ lastSub' = Some([repository |-> repo, number |-> pr.number, answers |-> answers])
            /\ IF reviews.threw \/ latestComment.threw \/ workflows.threw
               THEN /\ allPRs' = allPRs
                    /\ userPRs' = <<>>
                    /\ prRepo' = AfterCatch(prRepo)
                    /\ prPc' = "list"
               ELSE /\ allPRs' = Append(allPRs, PRRecord(pr, repo, reviews.value,
                                                         latestComment.value, workflows.value))
                    /\ userPRs' = Tail(userPRs)
                    /\ prRepo' = IF Tail(userPRs) = <<>> THEN prRepo + 1 ELSE prRepo
                    /\ prPc' = IF Tail(userPRs) = <<>> THEN "list" ELSE "prs"
    /\ UNCHANGED <<prAnswers, prResponse>>
    /\ UNCHANGED <<subVars, wfVars, uiVars, cardVars, reqVars>>

\* allPRs.sort(...) sorts in place; res.json(allPRs)
GetPRsRespond ==
    /\ prPc = "list"
    /\ prRepo > Len(REPOSITORIES)
    /\ prPc' = "done"
    /\ allPRs' = SortNewestFirst(allPRs)
    /\ prResponse' = Some([status |-> 200, body |-> SortNewestFirst(allPRs)])
    /\ UNCHANGED <<prRepo, userPRs, prAnswers, lastSub>>
    /\ UNCHANGED <<subVars, wfVars, uiVars, cardVars, reqVars>>

PrNext ==
    \/ GetPRsStart
    \/ GetPRsList
    \/ GetPRsProcess
    \/ GetPRsRespond

SpecPRs == PrInit /\ [][PrNext]_vars

(***************************************************************************)
(* The browser client (GitHubMonitor).  The page has set up its listeners  *)
(* and is awaiting loadConfig; a loadData call is started by init(), by a  *)
(* click on the refresh button (a disabled button gets no click) and by    *)
(* the 5-minute timer.  Each call awaits its two fetches jointly, then the *)
(* two bodies one after the other.                                         *)
(***************************************************************************)
PrsFeeds == {<<>>, <<[number |-> 1, repository |-> RepoNames[1]]>>}
WfFeeds == {<<>>, <<[id |-> 1, repository |-> RepoNames[1]]>>}

Pending == [state |-> "pending", data |-> <<>>]
Rejected == [state |-> "rejected", data |-> <<>>]
Response(ok, data) == [state |-> IF ok THEN "ok" ELSE "notok", data |-> data]

ErrorPanel == [view |-> "error", cards |-> <<>>]
renderPRs(prs) ==
    IF Len(prs) = 0 THEN [view |-> "empty", cards |-> <<>>]
    ELSE [view |-> "prs", cards |-> prs]
renderWorkflows(workflows) ==
    IF Len(workflows) = 0 THEN [view |-> "empty", cards |-> <<>>]
    ELSE [view |-> "workflows", cards |-> workflows]

UiInit ==
    /\ now = FirstNow
    /\ UiIdle
    /\ SubIdle
    /\ WfIdle
    /\ PrIdle
    /\ CardIdle
    /\ ReqIdle

\* loadData up to its first await: showLoading(true) and the two fetches
LoadDataStart ==
    /\ Len(calls) < MaxCalls
    /\ btnDisabled' = TRUE
    /\ btnText' = LoadingLabel
    /\ calls' = Append(calls, [pc |-> "fetching", prs |-> Pending, wfs |-> Pending])
    /\ UNCHANGED <<prsPanel, wfPanel>>

\* init(): loadConfig has settled (its failure is caught and logged); loadData is called
InitAfterConfig ==
    /\ initPc = "config"
    /\ initPc' = "loaded"
    /\ \E loaded \in BOOLEAN : repositories' = IF loaded THEN REPOSITORIES ELSE repositories
    /\ LoadDataStart
    /\ UNCHANGED <<subVars, wfVars, prVars, cardVars, reqVars>>

ClickRefresh ==
    /\ ~btnDisabled
    /\ LoadDataStart
    /\ UNCHANGED <<initPc, repositories>>
    /\ UNCHANGED <<subVars, wfVars, prVars, cardVars, reqVars>>

TimerFires ==
    /\ LoadDataStart
    /\ UNCHANGED <<initPc, repositories>>
    /\ UNCHANGED <<subVars, wfVars, prVars, cardVars, reqVars>>

\* the catch of loadData: showError(message); the button is left as it is
MutShowError(panel) == panel
ShowError(panel) == ErrorPanel

LoadDataFails ==
    /\ prsPanel' = ShowError(prsPanel)
    /\ wfPanel' = ShowError(wfPanel)
    /\ UNCHANGED <<btnDisabled, btnText>>

\* a fetch rejects (network error): Promise.all rejects at once, into the catch
FetchRejects ==
    \E c \in 1..Len(calls), feed \in {"prs", "wfs"} :
        /\ calls[c].pc = "fetching"
        /\ calls[c][feed] = Pending
        /\ calls' = [calls EXCEPT ![c][feed] = Rejected, ![c].pc = "failed"]
        /\ LoadDataFails
        /\ UNCHANGED <<initPc, repositories>>
        /\ UNCHANGED <<subVars, wfVars, prVars, cardVars, reqVars>>

\* a fetch is answered; with both answered, "if (!prsResponse.ok || !workflowsResponse.ok)"
FetchResponds ==
    \E c \in 1..Len(calls), ok \in BOOLEAN :
        \E answer \in {[feed |-> "prs", data |-> d] : d \in PrsFeeds}
                        \cup {[feed |-> "wfs", data |-> d] : d \in WfFeeds} :
            LET response == Response(ok, IF ok THEN answer.data ELSE <<>>)
                other == IF answer.feed = "prs" THEN calls[c].wfs ELSE calls[c].prs
            IN  /\ calls[c].pc = "fetching"
                /\ calls[c][answer.feed] = Pending
                /\ IF other = Pending
                   THEN /\ calls' = [calls EXCEPT ![c][answer.feed] = response]
                        /\ UNCHANGED <<btnDisabled, btnText, prsPanel, wfPanel>>
                   ELSE IF ~ok \/ other.state # "ok"
                   THEN /\ calls' = [calls EXCEPT ![c][answer.feed] = response,
                                                  ![c].pc = "failed"]
                        /\ LoadDataFails
                   ELSE /\ calls' = [calls EXCEPT ![c][answer.feed] = response,
                                                  ![c].pc = "prsJson"]
                        /\ UNCHANGED <<btnDisabled, btnText, prsPanel, wfPanel>>
                /\ UNCHANGED <<initPc, repositories>>
                /\ UNCHANGED <<subVars, wfVars, prVars, cardVars, reqVars>>

\* await prsResponse.json()
PrsJsonSettles ==
    \E c \in 1..Len(calls), parsed \in BOOLEAN :
        /\ calls[c].pc = "prsJson"
        /\ IF parsed
           THEN /\ calls' = [calls EXCEPT ![c].pc = "wfsJson"]
                /\ UNCHANGED <<btnDisabled, btnText, prsPanel, wfPanel>>
           ELSE /\ calls' = [calls EXCEPT ![c].pc = "failed"]
                /\ LoadDataFails
        /\ UNCHANGED <<initPc, repositories>>
        /\ UNCHANGED <<subVars, wfVars, prVars, cardVars, reqVars>>

\* await workflowsResponse.json(); showLoading(false); renderPRs; renderWorkflows
WfsJsonSettles ==
    \E c \in 1..Len(calls), parsed \in BOOLEAN :
        /\ calls[c].pc = "wfsJson"
        /\ IF parsed
           THEN /\ calls' = [calls EXCEPT ![c].pc = "rendered"]
                /\ btnDisabled' = FALSE
                /\ btnText' = IdleLabel
                /\ prsPanel' = renderPRs(calls[c].prs.data)
                /\ wfPanel' = renderWorkflows(calls[c].wfs.data)
           ELSE /\ calls' = [calls EXCEPT ![c].pc = "failed"]
                /\ LoadDataFails
        /\ UNCHANGED <<initPc, repositories>>
        /\ UNCHANGED <<subVars, wfVars, prVars, cardVars, reqVars>>

UiNext ==
    \/ InitAfterConfig
    \/ ClickRefresh
    \/ TimerFires
    \/ FetchRejects
    \/ FetchResponds
    \/ PrsJsonSettles
    \/ WfsJsonSettles

SpecClient == UiInit /\ [][UiNext]_vars

(***************************************************************************)
(* GET /api/prs, request by request.  Every githubRequest call is a        *)
(* request in flight until the upstream answers it; the handler runs on    *)
(* from an await in the step that settles what it awaits.  getPRReviews    *)
(* and getLatestPRComment await their two requests with Promise.all, which *)
(* rejects as soon as one of them has failed: the function then returns    *)
(* from its catch, whatever the state of the other request.  A successful  *)
(* answer to a sub-fetch request is the one of SubAnswers.                 *)
(***************************************************************************)
SubKinds == <<"reviews", "requested", "issueComments", "reviewComments", "runs">>

Request(repo, number, kind) ==
    [repo |-> repo, number |-> number, kind |-> kind, state |-> "pending"]

\* githubRequest(.../pulls?state=open)
ListRequest(repo) == Request(repo, 0, "pulls")

\* the five requests that the three sub-fetch functions issue when they are called
SubRequests(repo, number) == [i \in 1..Len(SubKinds) |-> Request(repo, number, SubKinds[i])]

StateOf(rs, repo, number, kind) ==
    LET i == CHOOSE i \in 1..Len(rs) :
                 rs[i].repo = repo /\ rs[i].number = number /\ rs[i].kind = kind
    IN  rs[i].state

\* await Promise.all([a, b]) is over: one has failed, or both have succeeded
JointlySettled(a, b) == a = "failed" \/ b = "failed" \/ (a = "ok" /\ b = "ok")

\* the three sub-fetch functions of the PR have all returned
SubFetchesSettled(rs, repo, number) ==
    /\ JointlySettled(StateOf(rs, repo, number, "reviews"), StateOf(rs, repo, number, "requested"))
    /\ JointlySettled(StateOf(rs, repo, number, "issueComments"),
                      StateOf(rs, repo, number, "reviewComments"))
    /\ StateOf(rs, repo, number, "runs") # "pending"

\* what a sub-fetch function has of a request when it returns: the answer, or the failure
\* that took it to its catch (it reads no answer there, a pending request's neither)
AnswerRead(rs, repo, number, kind) ==
    IF StateOf(rs, repo, number, kind) = "ok"
    THEN CHOOSE a \in {s[kind] : s \in SubAnswers} : a.ok
    ELSE Failed

\* the for loop over REPOSITORIES goes on with the repository at position next,
\* or the handler sorts and responds
AfterRepository(rs, all, next) ==
    /\ userPRs' = <<>>
    /\ prRepo' = next
    /\ IF next <= Len(REPOSITORIES)
       THEN /\ prPc' = "list"
            /\ requests' = Append(rs, ListRequest(next))
            /\ allPRs' = all
            /\ prResponse' = prResponse
       ELSE /\ prPc' = "done"
            /\ requests' = rs
            /\ allPRs' = SortNewestFirst(all)
            /\ prResponse' = Some([status |-> 200, body |-> SortNewestFirst(all)])

\* the for loop over userPRs goes on with the PRs in prs, if any
ProcessPRs(rs, all, prs) ==
    IF prs = <<>> THEN AfterRepository(rs, all, prRepo + 1)
    ELSE /\ userPRs' = prs
         /\ prRepo' = prRepo
         /\ prPc' = "prs"
         /\ requests' = rs \o SubRequests(prRepo, Head(prs).number)
         /\ allPRs' = all
         /\ prResponse' = prResponse

ReqInit ==
    /\ now = FirstNow
    /\ PrIdle
    /\ ReqIdle
    /\ SubIdle
    /\ WfIdle
    /\ UiIdle
    /\ CardIdle

\* the handler is called; it runs up to the list request of the first repository
HandleGetPRs ==
    /\ prPc = "idle"
    /\ AfterRepository(requests, allPRs, 1)
    /\ UNCHANGED <<prAnswers, lastSub>>
    /\ UNCHANGED <<subVars, wfVars, uiVars, cardVars>>

\* the list request settles: the catch of the repository, or the filter and the first PR
ListSettles ==
    /\ prPc = "list"
    /\ \E answer \in PRAnswers(MaxPRs - PRsListed(prAnswers)) :
        LET i == CHOOSE i \in 1..Len(requests) : requests[i] = ListRequest(prRepo)
            rs == [requests EXCEPT ![i].state = IF answer.ok THEN "ok" ELSE "failed"]
        IN  /\ prAnswers' = Append(prAnswers, answer)
            /\ IF ~answer.ok
               THEN AfterRepository(rs, allPRs, AfterCatch(prRepo))
               ELSE ProcessPRs(rs, allPRs, SelectSeq(answer.body, IsUserPR))
    /\ UNCHANGED lastSub
    /\ UNCHANGED <<subVars, wfVars, uiVars, cardVars>>

\* a sub-fetch request settles.  If it is the one that lets the last of the three
\* sub-fetch functions of the PR at hand return, the handler's Promise.all resolves:
\* the push, then the next PR, the next repository or the response.
SubRequestSettles ==
    /\ \E i \in 1..Len(requests), ok \in BOOLEAN :
        LET r == requests[i]
            rs == [requests EXCEPT ![i].state = IF ok THEN "ok" ELSE "failed"]
            atHand == /\ prPc = "prs"
                      /\ r.repo = prRepo
                      /\ r.number = Head(userPRs).number
        IN  /\ r.kind # "pulls"
            /\ r.state = "pending"
            /\ IF atHand /\ SubFetchesSettled(rs, r.repo, r.number)
                         /\ ~SubFetchesSettled(requests, r.repo, r.number)
               THEN LET pr == Head(userPRs)
                        repo == REPOSITORIES[prRepo]
                        Read(kind) == AnswerRead(rs, r.repo, r.number, kind)
                        reviews == getPRReviews(Read("reviews"), Read("requested"))
                        latestComment == getLatestPRComment(Read("issueComments"),
                                                            Read("reviewComments"))
                        workflows == getPRWorkflows(Read("runs"))
                    IN  IF reviews.threw \/ latestComment.threw \/ workflows.threw
                        THEN AfterRepository(rs, allPRs, AfterCatch(prRepo))
                        ELSE ProcessPRs(rs, Append(allPRs,
                                 PRRecord(pr, repo, reviews.value, latestComment.value,
                                          workflows.value)), Tail(userPRs))
               ELSE /\ requests' = rs
                    /\ UNCHANGED <<prPc, prRepo, userPRs, allPRs, prResponse>>
    /\ UNCHANGED <<prAnswers, lastSub>>
    /\ UNCHANGED <<subVars, wfVars, uiVars, cardVars>>

ReqNext ==
    \/ HandleGetPRs
    \/ ListSettles
    \/ SubRequestSettles

SpecRequests == ReqInit /\ [][ReqNext]_vars

(***************************************************************************)
(* createPRCard: the colour class of the card's title, from the place of   *)
(* the PR's repository in this.repositories.  The server is configured     *)
(* with one to MaxConfigured repositories; the page holds that list once   *)
(* loadConfig has succeeded and the empty list before, or for good when    *)
(* loadConfig failed; a card may be built at any time.                     *)
(***************************************************************************)
MaxConfigured == 10
PaletteSize == 8

ConfiguredLists == {SubSeq(RepoNames, 1, n) : n \in 1..MaxConfigured}

\* array.indexOf(x): the 0-based place of the first x, or -1
indexOf(array, x) ==
    IF \E i \in 1..Len(array) : array[i] = x
    THEN (CHOOSE i \in 1..Len(array) :
            array[i] = x /\ \A j \in 1..(i - 1) : array[j] # x) - 1
    ELSE -1

\* Math.min(repoIndex, 8)
MutLimitToPalette(repoIndex) == ((repoIndex - 1) % PaletteSize) + 1
LimitToPalette(repoIndex) == IF repoIndex < PaletteSize THEN repoIndex ELSE PaletteSize

\* `repo-${n}`
ClassText(n) == "repo-" \o ToString(n)

RepoClass(repos, repository) ==
    LET repoIndex == indexOf(repos, repository) + 1
    IN  ClassText(LimitToPalette(repoIndex))

CardInit ==
    /\ now = FirstNow
    /\ configured \in ConfiguredLists
    /\ card = Null
    /\ UiIdle
    /\ SubIdle
    /\ WfIdle
    /\ PrIdle
    /\ ReqIdle

\* loadConfig settles: this.repositories = config.repositories, or the catch
LoadConfigSettles ==
    /\ initPc = "config"
    /\ initPc' = "loaded"
    /\ \E loaded \in BOOLEAN : repositories' = IF loaded THEN configured ELSE repositories
    /\ UNCHANGED <<btnDisabled, btnText, prsPanel, wfPanel, calls>>
    /\ UNCHANGED <<subVars, wfVars, prVars, cardVars, reqVars>>

\* createPRCard(pr), for a PR of one of the server's repositories
CreatePRCard ==
    /\ \E k \in 1..Len(configured) :
        card' = Some([repository |-> configured[k], repositories |-> repositories,
                      repoClass |-> RepoClass(repositories, configured[k])])
    /\ UNCHANGED configured
    /\ UNCHANGED <<subVars, wfVars, prVars, uiVars, reqVars>>

CardNext ==
    \/ LoadConfigSettles
    \/ CreatePRCard

SpecCards == CardInit /\ [][CardNext]_vars

(***************************************************************************)
(* The runs the upstream listed during the call, and whether the response  *)
(* holds them: a run is known by its repository and its id.                *)
(***************************************************************************)
ListedRuns ==
    {<<k, j>> \in (1..Len(runAnswers)) \X (1..MaxRuns) :
        runAnswers[k].ok /\ j <= Len(runAnswers[k].body.workflow_runs)}
ListedRun(kj) == runAnswers[kj[1]].body.workflow_runs[kj[2]]
ReturnedRuns(kj) ==
    {i \in 1..Len(wfResponse[1].body) :
        /\ wfResponse[1].body[i].repository = REPOSITORIES[kj[1]]
        /\ wfResponse[1].body[i].id = kj[2]}
OnPullRef(head_branch) ==
    /\ head_branch # Null
    /\ Len(head_branch[1]) >= 4
    /\ SubSeq(head_branch[1], 1, 4) = <<"refs", "/", "pull", "/">>
HasPullRequests(run) == run.pull_requests \notin {Null, Some(<<>>)}

(***************************************************************************)
(* C6.  Every run in the response of GET /api/workflows was listed by the  *)
(* upstream with a head branch that does not start with refs/pull/ and     *)
(* with no associated pull request; a listed run on refs/pull/42/merge is  *)
(* not in the response, associated pull requests or not.                   *)
(***************************************************************************)
C6_Standalone ==
    wfPc = "done" =>
        /\ wfResponse[1].status = 200
        /\ \A i \in 1..Len(wfResponse[1].body) :
                /\ ~OnPullRef(wfResponse[1].body[i].head_branch)
                /\ \E kj \in ListedRuns :
                        /\ i \in ReturnedRuns(kj)
                        /\ ListedRun(kj).head_branch = wfResponse[1].body[i].head_branch
                        /\ ~HasPullRequests(ListedRun(kj))
        /\ \A kj \in ListedRuns :
                OnPullRef(ListedRun(kj).head_branch) => ReturnedRuns(kj) = {}

\* a recent run on refs/pull/42/merge without associated pull requests is left out,
\* next to a run that is returned
C6_Witness ==
    /\ wfPc = "done"
    /\ Len(wfResponse[1].body) = 1
    /\ \E kj \in ListedRuns :
            /\ ListedRun(kj).head_branch = Some(<<"refs", "/", "pull", "/", "42", "/", "merge">>)
            /\ ~HasPullRequests(ListedRun(kj))
            /\ DateParse(ListedRun(kj).created_at) > wfStartedAt - 3
            /\ ReturnedRuns(kj) = {}

(***************************************************************************)
(* C7.  With the cutoff three days before the moment getUserWorkflows was  *)
(* called, in every repository of the call: a listed run created before    *)
(* the cutoff is not in the response, and a listed run created at the      *)
(* cutoff or later that is on no pull-request ref and has no associated    *)
(* pull request is in the response, once.                                  *)
(***************************************************************************)
C7_Cutoff ==
    wfPc = "done" =>
        \A kj \in ListedRuns :
            LET run == ListedRun(kj)
                created == DateParse(run.created_at)
            IN  /\ created < wfStartedAt - 3 => ReturnedRuns(kj) = {}
                /\ (/\ created >= wfStartedAt - 3
                    /\ ~OnPullRef(run.head_branch)
                    /\ ~HasPullRequests(run)) => Cardinality(ReturnedRuns(kj)) = 1

\* the clock has advanced during the call; the second repository lists a run created
\* exactly at the cutoff, which is returned, and one a day older, which is not
C7_Witness ==
    /\ wfPc = "done"
    /\ now > wfStartedAt
    /\ runAnswers[1] = Failed
    /\ runAnswers[2].ok
    /\ Len(runAnswers[2].body.workflow_runs) = 2
    /\ ~HasPullRequests(ListedRun(<<2, 1>>)) /\ ~OnPullRef(ListedRun(<<2, 1>>).head_branch)
    /\ ~HasPullRequests(ListedRun(<<2, 2>>)) /\ ~OnPullRef(ListedRun(<<2, 2>>).head_branch)
    /\ DateParse(ListedRun(<<2, 1>>).created_at) = wfStartedAt - 3
    /\ DateParse(ListedRun(<<2, 2>>).created_at) = wfStartedAt - 4
    /\ Len(wfResponse[1].body) = 1
    /\ wfResponse[1].body[1].id = 1

(***************************************************************************)
(* The sub-fetch functions called on their own, on any upstream answers.   *)
(***************************************************************************)
SubInit ==
    /\ SubIdle
    /\ now = FirstNow
    /\ WfIdle
    /\ PrIdle
    /\ UiIdle
    /\ CardIdle
    /\ ReqIdle

CallGetPRReviews ==
    /\ subCall.fn = "none"
    /\ \E reviewsAnswer \in ReviewAnswers, requestedAnswer \in RequestedAnswers :
        /\ subCall' = [fn |-> "getPRReviews", answers |-> <<reviewsAnswer, requestedAnswer>>]
        /\ subResult' = getPRReviews(reviewsAnswer, requestedAnswer)
        /\ UNCHANGED <<wfVars, prVars, uiVars, cardVars, reqVars>>

CallGetLatestPRComment ==
    /\ subCall.fn = "none"
    /\ \E issueAnswer \in CommentAnswers, reviewAnswer \in CommentAnswers :
        /\ subCall' = [fn |-> "getLatestPRComment", answers |-> <<issueAnswer, reviewAnswer>>]
        /\ subResult' = getLatestPRComment(issueAnswer, reviewAnswer)
        /\ UNCHANGED <<wfVars, prVars, uiVars, cardVars, reqVars>>

CallGetPRWorkflows ==
    /\ subCall.fn = "none"
    /\ \E runsAnswer \in RunAnswers(MaxRuns) :
        /\ subCall' = [fn |-> "getPRWorkflows", answers |-> <<runsAnswer>>]
        /\ subResult' = getPRWorkflows(runsAnswer)
        /\ UNCHANGED <<wfVars, prVars, uiVars, cardVars, reqVars>>

\* the caller has taken the result; the next call starts afresh
SubReturn ==
    /\ subCall.fn # "none"
    /\ subCall' = [fn |-> "none", answers |-> <<>>]
    /\ subResult' = Return(Null)
    /\ UNCHANGED <<wfVars, prVars, uiVars, cardVars, reqVars>>

SubNext ==
    \/ CallGetPRReviews
    \/ CallGetLatestPRComment
    \/ CallGetPRWorkflows
    \/ SubReturn

SpecSub == SubInit /\ [][SubNext]_vars

UsersIn(entries) == {entries[i].user : i \in 1..Len(entries)}

ListsHolding(result, login) ==
    {list \in {"approving", "changesRequested", "pending", "requestedUsers"} :
        login \in UsersIn(result[list])}

(***************************************************************************)
(* C5.  In every result of getPRReviews no user is in more than one of     *)
(* approving, changesRequested, pending and requestedUsers (teams are      *)
(* only ever in requestedTeams); in particular a requested user is in      *)
(* none of the three classified lists.                                     *)
(***************************************************************************)
C5_AtMostOneOfFive ==
    subCall.fn = "getPRReviews" =>
        /\ ~subResult.threw
        /\ \A login \in Logins : Cardinality(ListsHolding(subResult.value, login)) <= 1

CreatedAtOf(comments) == {comments[i].created_at : i \in 1..Len(comments)}

(***************************************************************************)
(* C8.  getLatestPRComment returns null when either comment fetch fails    *)
(* or when there is no comment at all, and otherwise the created_at of a   *)
(* comment of either source that no comment of either source is later      *)
(* than, whatever the order the comments are listed in.                    *)
(***************************************************************************)
C8_LatestComment ==
    subCall.fn = "getLatestPRComment" =>
        LET issueAnswer == subCall.answers[1]
            reviewAnswer == subCall.answers[2]
            latest == subResult.value
        IN  /\ ~subResult.threw
            /\ IF ~issueAnswer.ok \/ ~reviewAnswer.ok THEN latest = Null
               ELSE LET all == CreatedAtOf(issueAnswer.body) \cup CreatedAtOf(reviewAnswer.body)
                    IN  IF all = {} THEN latest = Null
                        ELSE /\ latest # Null
                             /\ latest[1] \in all
                             /\ \A t \in all : DateParse(t) <= DateParse(latest[1])

\* T1 and T2 are issue comments, T3 is the second of two review comments: T3 is returned
C8_Witness ==
    /\ subCall.fn = "getLatestPRComment"
    /\ subCall.answers[1] = Ok(<<[created_at |-> Stamp(2)], [created_at |-> Stamp(1)]>>)
    /\ subCall.answers[2] = Ok(<<[created_at |-> Stamp(1)], [created_at |-> Stamp(3)]>>)
    /\ subResult = Return(Some(Stamp(3)))

(***************************************************************************)
(* The PRs the upstream listed during the request, and the records of the  *)
(* response: a PR is known by its repository and its number.               *)
(***************************************************************************)
ListedPRs ==
    {<<k, j>> \in (1..Len(prAnswers)) \X (1..MaxPRs) :
        prAnswers[k].ok /\ j <= Len(prAnswers[k].body)}
ListedPR(kj) == prAnswers[kj[1]].body[kj[2]]
ListedUserPRs == {kj \in ListedPRs : ListedPR(kj).user.login = GITHUB_USERNAME}
RecordsOf(records, kj) ==
    {i \in 1..Len(records) :
        /\ records[i].repository = REPOSITORIES[kj[1]]
        /\ records[i].number = kj[2]}
RepoPosition(name) == CHOOSE k \in 1..Len(REPOSITORIES) : REPOSITORIES[k] = name

(***************************************************************************)
(* C1.  When GET /api/prs has responded, every configured repository was   *)
(* asked for its PR list, the response is a 200 with a sequence of PRs, a  *)
(* repository whose list fetch failed has no PR in it, and every PR        *)
(* authored by the user that a successful list fetch returned is in it.    *)
(***************************************************************************)
C1_ListFailureIsLocal ==
    prPc = "done" =>
        /\ Len(prAnswers) = Len(REPOSITORIES)
        /\ prResponse[1].status = 200
        /\ \A k \in 1..Len(prAnswers) :
                ~prAnswers[k].ok =>
                    \A i \in 1..Len(prResponse[1].body) :
                        prResponse[1].body[i].repository # REPOSITORIES[k]
        /\ \A kj \in ListedUserPRs : RecordsOf(prResponse[1].body, kj) # {}

\* the first repository's list fetch fails, the second lists a PR of the user: it is returned
C1_Witness ==
    /\ prPc = "done"
    /\ prAnswers[1] = Failed
    /\ prAnswers[2].ok
    /\ <<2, 1>> \in ListedUserPRs
    /\ Len(prResponse[1].body) = 1
    /\ prResponse[1].body[1].repository = "acme/web"
    /\ prResponse[1].body[1].number = 1

\* the record of the PR processed last, against the upstream's answers about it
C2_RecordOfLast ==
    lastSub # Null =>
        LET answers == lastSub[1].answers
            mine == {i \in 1..Len(allPRs) :
                        /\ allPRs[i].repository = lastSub[1].repository
                        /\ allPRs[i].number = lastSub[1].number}
        IN  /\ Cardinality(mine) = 1
            /\ \A i \in mine :
                /\ allPRs[i].reviews =
                      IF answers.reviews.ok /\ answers.requested.ok
                      THEN [approving |-> <<[user |-> "bob", submitted_at |-> Stamp(3),
                                             author_association |-> "MEMBER"]>>,
                            changesRequested |-> <<>>, pending |-> <<>>,
                            requestedUsers |-> <<[user |-> "carol", type |-> "user"]>>,
                            requestedTeams |-> <<>>]
                      ELSE [approving |-> <<>>, changesRequested |-> <<>>, pending |-> <<>>,
                            requestedUsers |-> <<>>, requestedTeams |-> <<>>]
                /\ allPRs[i].latest_comment =
                      IF answers.issueComments.ok /\ answers.reviewComments.ok
                      THEN Some(Stamp(4)) ELSE Null
                /\ allPRs[i].workflows =
                      IF answers.runs.ok
                      THEN <<[id |-> 1, status |-> "completed", conclusion |-> "success",
                              created_at |-> Stamp(3)]>>
                      ELSE <<>>

\* a step keeps every record collected so far, as it is
C2_RecordsKept ==
    \A i \in 1..Len(allPRs) :
        Cardinality({j \in 1..Len(allPRs') : allPRs'[j] = allPRs[i]}) =
        Cardinality({j \in 1..Len(allPRs) : allPRs[j] = allPRs[i]})

(***************************************************************************)
(* C2.  The PR processed last has exactly one record, whichever of the     *)
(* five requests about it failed: its reviews are the five empty           *)
(* collections if the reviews or the requested-reviewers request failed    *)
(* and the classified answer otherwise, its latest_comment is null if a    *)
(* comments request failed and the latest comment otherwise, its workflows *)
(* are empty if the runs request failed and the listed runs otherwise,     *)
(* each of the three decided by its own requests alone; and no step        *)
(* changes or drops a record collected before.                             *)
(***************************************************************************)
C2_SubFetchFailureIsLocal == []C2_RecordOfLast /\ [][C2_RecordsKept]_vars

\* the second PR's reviews request failed while its comments and runs were answered; the
\* first PR's record, with its reviews, is still there
C2_Witness ==
    /\ lastSub # Null
    /\ ~lastSub[1].answers.reviews.ok
    /\ lastSub[1].answers.requested.ok
    /\ lastSub[1].answers.issueComments.ok
    /\ lastSub[1].answers.reviewComments.ok
    /\ lastSub[1].answers.runs.ok
    /\ Len(allPRs) = 2
    /\ Len(allPRs[1].reviews.approving) = 1
    /\ allPRs[2].reviews.approving = <<>>
    /\ allPRs[2].reviews.requestedUsers = <<>>
    /\ allPRs[2].latest_comment = Some(Stamp(4))
    /\ Len(allPRs[2].workflows) = 1

(***************************************************************************)
(* C3.  When GET /api/prs has responded, every record of the response has  *)
(* the configured username as its author and is a PR the upstream listed   *)
(* for the repository the record names, and every listed PR authored by    *)
(* the user has exactly one record.                                        *)
(***************************************************************************)
C3_OnlyAndAllUserPRs ==
    prPc = "done" =>
        /\ \A i \in 1..Len(prResponse[1].body) :
                /\ prResponse[1].body[i].author = GITHUB_USERNAME
                /\ \E kj \in ListedUserPRs :
                        /\ i \in RecordsOf(prResponse[1].body, kj)
                        /\ prResponse[1].body[i].created_at = ListedPR(kj).created_at
        /\ \A kj \in ListedUserPRs : Cardinality(RecordsOf(prResponse[1].body, kj)) = 1

\* two repositories, a PR of the user in the first and a PR of somebody else in the
\* second: one PR is returned, from the first repository
C3_Witness ==
    /\ prPc = "done"
    /\ prAnswers[1].ok /\ Len(prAnswers[1].body) = 1
    /\ prAnswers[2].ok /\ Len(prAnswers[2].body) = 1
    /\ prAnswers[1].body[1].user.login = GITHUB_USERNAME
    /\ prAnswers[2].body[1].user.login = "bob"
    /\ Len(prResponse[1].body) = 1
    /\ prResponse[1].body[1].repository = "acme/api"

CollectedBefore(a, b) ==
    \/ RepoPosition(a.repository) < RepoPosition(b.repository)
    \/ /\ a.repository = b.repository
       /\ a.number < b.number

(***************************************************************************)
(* C4.  The response of GET /api/prs is in descending order of creation    *)
(* time, and two PRs created at the same time are in the order they were   *)
(* collected in: by position of the repository in REPOSITORIES, then by    *)
(* place in the upstream's list.                                           *)
(***************************************************************************)
C4_NewestFirstStable ==
    prPc = "done" =>
        \A i, j \in 1..Len(prResponse[1].body) :
            i < j =>
                LET a == prResponse[1].body[i]
                    b == prResponse[1].body[j]
                IN  /\ DateParse(a.created_at) >= DateParse(b.created_at)
                    /\ DateParse(a.created_at) = DateParse(b.created_at) => CollectedBefore(a, b)

\* a PR from each repository, created at the same time: the first repository's comes first
C4_Witness ==
    /\ prPc = "done"
    /\ Len(prResponse[1].body) = 2
    /\ prResponse[1].body[1].created_at = prResponse[1].body[2].created_at
    /\ prResponse[1].body[1].repository = "acme/api"
    /\ prResponse[1].body[2].repository = "acme/web"

\* a fetch was rejected, or both were answered and one of them non-2xx
FeedFailed(call) ==
    \/ call.prs.state = "rejected"
    \/ call.wfs.state = "rejected"
    \/ /\ call.prs.state # "pending"
       /\ call.wfs.state # "pending"
       /\ (call.prs.state = "notok" \/ call.wfs.state = "notok")

\* a call with a failed feed has ended in the catch; a call past its fetches has two 2xx answers
C9_FailedNeverRenders ==
    \A c \in 1..Len(calls) :
        /\ FeedFailed(calls[c]) => calls[c].pc = "failed"
        /\ calls[c].pc \in {"prsJson", "wfsJson", "rendered"} =>
                calls[c].prs.state = "ok" /\ calls[c].wfs.state = "ok"
        /\ (calls[c].prs.state = "ok" /\ calls[c].wfs.state = "ok") =>
                calls[c].pc # "fetching"

\* the step that ends a call: in the catch, or after the render; a call still awaiting its
\* fetches ends in the catch only if a feed failed
C9_EndOfCall ==
    \A c \in 1..Len(calls) :
        /\ (calls[c].pc # "failed" /\ calls'[c].pc = "failed") =>
                /\ prsPanel' = [view |-> "error", cards |-> <<>>]
                /\ wfPanel' = [view |-> "error", cards |-> <<>>]
                /\ calls[c].pc = "fetching" => FeedFailed(calls'[c])
        /\ (calls[c].pc # "rendered" /\ calls'[c].pc = "rendered") =>
                /\ prsPanel'.view = (IF calls'[c].prs.data = <<>> THEN "empty" ELSE "prs")
                /\ prsPanel'.cards = calls'[c].prs.data
                /\ wfPanel'.view = (IF calls'[c].wfs.data = <<>> THEN "empty" ELSE "workflows")
                /\ wfPanel'.cards = calls'[c].wfs.data

(***************************************************************************)
(* C9.  A loadData call one of whose fetches was rejected or answered      *)
(* non-2xx never gets to render: when it ends, it ends in the catch, and   *)
(* the step that ends it there leaves both panels showing the error        *)
(* message; a call whose two fetches both answered 2xx goes on to read the *)
(* bodies, and the step that ends it after that leaves the PR panel        *)
(* showing that call's PRs and the workflow panel that call's workflows.   *)
(***************************************************************************)
C9_AllOrNothing == []C9_FailedNeverRenders /\ [][C9_EndOfCall]_vars

\* the PR feed answered 200 with a PR, the workflow feed answered non-2xx: the call has
\* ended in the catch and both panels show the error
C9_Witness ==
    /\ Len(calls) = 1
    /\ calls[1].pc = "failed"
    /\ calls[1].prs.state = "ok"
    /\ calls[1].prs.data # <<>>
    /\ calls[1].wfs.state = "notok"
    /\ prsPanel = [view |-> "error", cards |-> <<>>]
    /\ wfPanel = [view |-> "error", cards |-> <<>>]

InFlight(call) == call.pc \in {"fetching", "prsJson", "wfsJson"}

(***************************************************************************)
(* C10.  Whenever a loadData call is in flight, the refresh button is      *)
(* disabled and shows its loading label.                                   *)
(***************************************************************************)
C10_DisabledWhileInFlight ==
    (\E c \in 1..Len(calls) : InFlight(calls[c])) =>
        btnDisabled /\ btnText = "Loading..."

\* the 1-based place of the card's repository in this.repositories as it was when the
\* card was built, 0 when it was not there
CardPosition ==
    LET list == card[1].repositories
        at == {i \in 1..Len(list) : list[i] = card[1].repository}
    IN  IF at = {} THEN 0 ELSE CHOOSE i \in at : \A j \in at : i <= j

Palette == {ClassText(n) : n \in 1..PaletteSize}

(***************************************************************************)
(* C11, as stated.  The colour class of a card is one of the 8 palette     *)
(* entries, and a card for the repository at position i+8 of the list has  *)
(* the class that a card for the repository at position i has.             *)
(***************************************************************************)
C11_ModuloPalette ==
    card # Null =>
        /\ card[1].repoClass \in Palette
        /\ CardPosition > PaletteSize =>
              card[1].repoClass =
                  RepoClass(card[1].repositories,
                            card[1].repositories[CardPosition - PaletteSize])

(***************************************************************************)
(* C11, amended.  The colour class of a card is the position of the PR's   *)
(* repository in the page's repository list, limited to 8: a repository at *)
(* position 1 to 8 has the palette entry of its position, every repository *)
(* at a later position has entry 8, and a repository that is not in the    *)
(* page's list (the list is empty until loadConfig succeeds) has the class *)
(* repo-0, which is none of the 8 entries.                                 *)
(***************************************************************************)
C11_LimitedToPalette ==
    card # Null =>
        /\ CardPosition = 0 => card[1].repoClass = "repo-0" /\ card[1].repoClass \notin Palette
        /\ CardPosition >= 1 => card[1].repoClass \in Palette
        /\ CardPosition \in 1..PaletteSize => card[1].repoClass = ClassText(CardPosition)
        /\ CardPosition >= PaletteSize => card[1].repoClass = "repo-8"

C11_Witness ==
    /\ card # Null
    /\ CardPosition = PaletteSize + 1
    /\ card[1].repoClass = "repo-8"
    /\ RepoClass(card[1].repositories, card[1].repositories[1]) = "repo-1"

\* two requests are about the same PR (a list request is about no PR)
SamePR(a, b) ==
    /\ a.repo = b.repo
    /\ a.number = b.number
    /\ a.kind # "pulls"
    /\ b.kind # "pulls"

(***************************************************************************)
(* C12.  Within one GET /api/prs request, a request that was issued before *)
(* a request about another PR or another repository (the list request      *)
(* included) is no longer in flight: every request of a PR has completed   *)
(* before the first request of the next PR or of the next repository is    *)
(* issued, so that requests in flight together are about the same PR.      *)
(***************************************************************************)
C12_OnlyOnePRInFlight ==
    \A i \in 1..Len(requests), j \in 1..Len(requests) :
        (i < j /\ ~SamePR(requests[i], requests[j])) => requests[i].state # "pending"

(***************************************************************************)
(* C13.  Once a loadData call has been made and none is in flight, however *)
(* the calls ended (both feeds rendered, or the error path), the refresh   *)
(* button is enabled and shows its idle label.                             *)
(***************************************************************************)
C13_EnabledWhenNoneInFlight ==
    (Len(calls) > 0 /\ \A c \in 1..Len(calls) : ~InFlight(calls[c])) =>
        (~btnDisabled /\ btnText = IdleLabel)

====
